---- MODULE Spec2Model ----
(***************************************************************************)
(* A model of the QSPICE schematic editor (qspice/editor/qsch_editor.py):  *)
(* the QschTag tag tree (tokenizer, serializer, attribute access) and the  *)
(* QschEditor built on it (component index, parameters, instructions).     *)
(*                                                                         *)
(* Strings are sequences of one-character strings.  The open and close     *)
(* delimiters of the format are written "<" and ">", and the four header   *)
(* bytes are written as the two-letter names of their values.  Indices     *)
(* into strings and lists are the 0-based indices of the source.           *)
(***************************************************************************)
EXTENDS Integers, Sequences, FiniteSets, TLC

VARIABLES
    schematic,   \* QschEditor.schematic: the root [tokens, items], items being object ids
    heap,        \* the QschTag objects that are children of the root, by object id
    symbols,     \* QschEditor._symbols, an insertion-ordered dict: a sequence of [key, info]
    last,        \* the last call made on the editor and how it ended
    nops,        \* number of calls made so far
    stream,      \* tag tree: the stream given to the QschTag constructor
    tree,        \* tag tree: the result of the constructor, then mutated by set_attr
    text,        \* tag tree: the text returned by out(0)
    reparsed,    \* tag tree: the result of the constructor on that text
    pc,          \* tag tree: position in construct / set_attr / out / construct again
    nset         \* tag tree: number of set_attr calls made

vars == <<schematic, heap, symbols, last, nops, stream, tree, text, reparsed, pc, nset>>
editorVars == <<schematic, heap, symbols, last, nops>>
tagVars == <<stream, tree, text, reparsed, pc, nset>>

-----------------------------------------------------------------------------
(* Characters and Python string primitives *)

OPEN == "<"
CLOSE == ">"
SP == " "
NL == "\n"
QUOTE == "\""
LPAR == "("
RPAR == ")"

Digits == <<"0", "1", "2", "3", "4", "5", "6", "7", "8", "9">>
Lower == <<"a", "b", "c", "d", "e", "f", "g", "h", "i", "j", "k", "l", "m",
           "n", "o", "p", "q", "r", "s", "t", "u", "v", "w", "x", "y", "z">>
Upper == <<"A", "B", "C", "D", "E", "F", "G", "H", "I", "J", "K", "L", "M",
           "N", "O", "P", "Q", "R", "S", "T", "U", "V", "W", "X", "Y", "Z">>

Range(s) == {s[k] : k \in DOMAIN s}

Min(S) == CHOOSE x \in S : \A y \in S : x <= y
Max(S) == CHOOSE x \in S : \A y \in S : x >= y

\* s[i], 0-based
At(s, i) == s[i + 1]

\* s[a:b], 0-based, for 0 <= a and b <= len(s)
Slice(s, a, b) == IF b <= a THEN <<>> ELSE SubSeq(s, a + 1, b)

RECURSIVE Concat(_)
\* ''.join(parts)
Concat(parts) == IF parts = <<>> THEN <<>> ELSE Head(parts) \o Concat(Tail(parts))

RECURSIVE Join(_, _)
\* sep.join(parts)
Join(sep, parts) ==
    IF parts = <<>> THEN <<>>
    ELSE IF Len(parts) = 1 THEN parts[1]
    ELSE parts[1] \o sep \o Join(sep, Tail(parts))

\* s.startswith(p)
StartsWith(s, p) == Len(s) >= Len(p) /\ SubSeq(s, 1, Len(p)) = p

\* s.endswith(p)
EndsWith(s, p) == Len(s) >= Len(p) /\ SubSeq(s, Len(s) - Len(p) + 1, Len(s)) = p

UpperChar(c) ==
    IF \E k \in 1..26 : Lower[k] = c THEN Upper[CHOOSE k \in 1..26 : Lower[k] = c] ELSE c

\* s.upper()
ToUpper(s) == [k \in DOMAIN s |-> UpperChar(s[k])]

IsSpace(c) == c \in {SP, NL}

\* the smallest index j >= i with s[j] in cs, or len(s) when there is none
FindFrom(s, i, cs) ==
    LET hits == {j \in i..(Len(s) - 1) : At(s, j) \in cs}
    IN  IF hits = {} THEN Len(s) ELSE Min(hits)

\* the smallest index j >= i with s[j] not in cs, or len(s) when there is none
SkipFrom(s, i, cs) ==
    LET hits == {j \in i..(Len(s) - 1) : At(s, j) \notin cs}
    IN  IF hits = {} THEN Len(s) ELSE Min(hits)

\* s.strip()
Strip(s) ==
    LET a == SkipFrom(s, 0, {SP, NL})
        ends == {j \in 0..(Len(s) - 1) : ~IsSpace(At(s, j))}
    IN  IF ends = {} THEN <<>> ELSE Slice(s, a, Max(ends) + 1)

\* s.split()[0], or <<>> when s.split() is empty (the caller decides the IndexError)
FirstWord(s) ==
    LET a == SkipFrom(s, 0, {SP, NL})
    IN  Slice(s, a, FindFrom(s, a, {SP, NL}))

\* sub in s
Contains(s, sub) ==
    \E a \in 0..(Len(s) - Len(sub)) : Slice(s, a, a + Len(sub)) = sub

RECURSIVE NatStr(_)
NatStr(n) == IF n < 10 THEN <<Digits[n + 1]>> ELSE NatStr(n \div 10) \o <<Digits[(n % 10) + 1]>>

\* str(n) for an int n
IntStr(n) == IF n < 0 THEN <<"-">> \o NatStr(-n) ELSE NatStr(n)

DigitVal(c) == (CHOOSE k \in 1..10 : Digits[k] = c) - 1

RECURSIVE NatVal(_)
NatVal(s) == IF s = <<>> THEN 0 ELSE 10 * NatVal(SubSeq(s, 1, Len(s) - 1)) + DigitVal(s[Len(s)])

IsNatLit(s) == s # <<>> /\ \A k \in DOMAIN s : s[k] \in Range(Digits)

\* the int a sign and the digits body stand for
Signed(s, body) ==
    IF ~IsNatLit(body) THEN [err |-> "ValueError", val |-> 0]
    ELSE [err |-> "none", val |-> IF s[1] = "-" THEN -NatVal(body) ELSE NatVal(body)]

\* int(s): [err, val]
ParseInt(s) == Signed(s, IF s # <<>> /\ s[1] \in {"-", "+"} THEN Tail(s) ELSE s)

-----------------------------------------------------------------------------
(* QschTag: the tag tree.  A node is [tokens, items]. *)

Specials == {OPEN, CLOSE, SP, NL, QUOTE, LPAR}

Failed(e) == [err |-> e, tokens |-> <<>>, items |-> <<>>, stop |-> 0]

\* lines 59-60 and 63-64: the pending token stream[i0:i] is kept when it is not empty
Flush(s, i0, i, tokens) == IF i > i0 THEN Append(tokens, Slice(s, i0, i)) ELSE tokens

\* lines 54-55 with the i += 1 of line 76: where the scan resumes after a child, as [i, i0]
AfterChild(stop) == [i |-> stop + 1, i0 |-> stop + 1]

\* lines 68-70 and 73-75: the index of the next stop character after i, or -1 when
\* stream[i] runs off the end of the stream (IndexError)
SkipTo(s, i, stopchar) ==
    LET j == FindFrom(s, i + 1, {stopchar})
    IN  IF j >= Len(s) THEN -1 ELSE j

RECURSIVE QschTag(_, _), Scan(_, _, _, _, _)

\* the while loop of QschTag.__init__, from position i with token start i0
Scan(s, i, i0, tokens, items) ==
    IF i >= Len(s) THEN Failed("IOError")
    ELSE LET c == At(s, i) IN
         CASE c = OPEN ->
                LET child == QschTag(s, i)
                    nxt == AfterChild(child.stop)
                IN  IF child.err # "none" THEN Failed(child.err)
                    ELSE Scan(s, nxt.i, nxt.i0, tokens,
                              Append(items, [tokens |-> child.tokens, items |-> child.items]))
           [] c = CLOSE ->
                [err |-> "none", tokens |-> Flush(s, i0, i, tokens), items |-> items,
                 stop |-> i + 1]
           [] c = SP \/ c = NL ->
                Scan(s, i + 1, i + 1, Flush(s, i0, i, tokens), items)
           [] c = QUOTE ->
                LET j == SkipTo(s, i, QUOTE)
                IN  IF j < 0 THEN Failed("IndexError") ELSE Scan(s, j + 1, i0, tokens, items)
           [] c = LPAR ->
                LET j == SkipTo(s, i, RPAR)
                IN  IF j < 0 THEN Failed("IndexError") ELSE Scan(s, j + 1, i0, tokens, items)
           [] OTHER ->
                Scan(s, FindFrom(s, i + 1, Specials), i0, tokens, items)

\* QschTag(stream, start): [err, tokens, items, stop]
QschTag(s, start) ==
    IF start >= Len(s) THEN Failed("IndexError")
    ELSE IF At(s, start) # OPEN THEN Failed("AssertionError")
    ELSE Scan(s, start + 1, start + 1, <<>>, <<>>)

NodeOf(r) == [tokens |-> r.tokens, items |-> r.items]

RECURSIVE Repeat(_, _)
\* s * n
Repeat(s, n) == IF n <= 0 THEN <<>> ELSE s \o Repeat(s, n - 1)

RECURSIVE out(_, _)
\* QschTag.out(level)
out(node, level) ==
    LET spaces == Repeat(<<SP, SP>>, level)
        line == Join(<<SP>>, node.tokens)
    IN  IF Len(node.items) # 0
        THEN spaces \o <<OPEN>> \o line \o <<NL>>
             \o Concat([k \in DOMAIN node.items |-> out(node.items[k], level + 1)])
             \o spaces \o <<CLOSE, NL>>
        ELSE spaces \o <<OPEN>> \o line \o <<CLOSE, NL>>

\* QschTag.tag: [err, val]
tag(node) ==
    IF Len(node.tokens) = 0 THEN [err |-> "IndexError", val |-> <<>>]
    ELSE [err |-> "none", val |-> node.tokens[1]]

\* QschTag.get_items over a list of nodes: [err, idx], idx the positions (from 1) of
\* the nodes whose tag is item, in order
get_items(nodes, item) ==
    IF \E k \in DOMAIN nodes : tag(nodes[k]).err # "none"
    THEN [err |-> "IndexError", idx |-> <<>>]
    ELSE [err |-> "none",
          idx |-> LET F[k \in 0..Len(nodes)] ==
                          IF k = 0 THEN <<>>
                          ELSE IF nodes[k].tokens[1] = item THEN Append(F[k - 1], k)
                          ELSE F[k - 1]
                  IN  F[Len(nodes)]]

HexDigits == Digits \o <<"a", "b", "c", "d", "e", "f">>
HexVal(c) == (CHOOSE k \in 1..16 : HexDigits[k] = c) - 1

RECURSIVE HexNat(_)
HexNat(s) == IF s = <<>> THEN 0 ELSE 16 * HexNat(SubSeq(s, 1, Len(s) - 1)) + HexVal(s[Len(s)])

\* a.split(',')
SplitComma(a) ==
    LET commas == {j \in 0..(Len(a) - 1) : At(a, j) = ","}
        F[k \in 0..Len(a)] ==
            \* [done, cur]: the parts closed so far and the part being read, after k characters
            IF k = 0 THEN [done |-> <<>>, cur |-> <<>>]
            ELSE IF a[k] = "," THEN [done |-> Append(F[k - 1].done, F[k - 1].cur), cur |-> <<>>]
            ELSE [done |-> F[k - 1].done, cur |-> Append(F[k - 1].cur, a[k])]
    IN  Append(F[Len(a)].done, F[Len(a)].cur)

NoAttr(e) == [err |-> e, kind |-> "none", val |-> 0]

\* line 104: int(x) for x in parts
ParseAll(parts) == [k \in DOMAIN parts |-> ParseInt(parts[k])]

\* line 104: the tuple of the ints, ints the outcomes of int(x)
IntTuple(ints) ==
    IF \E k \in DOMAIN ints : ints[k].err # "none" THEN NoAttr("ValueError")
    ELSE [err |-> "none", kind |-> "tuple", val |-> [k \in DOMAIN ints |-> ints[k].val]]

\* line 106: int(h, 16)
HexInt(h) ==
    IF h = <<>> \/ \E k \in DOMAIN h : h[k] \notin Range(HexDigits) THEN NoAttr("ValueError")
    ELSE [err |-> "none", kind |-> "int", val |-> HexNat(h)]

\* line 110: int(a), n the outcome of ParseInt
DecInt(n) ==
    IF n.err # "none" THEN NoAttr("ValueError")
    ELSE [err |-> "none", kind |-> "int", val |-> n.val]

\* lines 103-110 on the token a
AttrOf(a) ==
    IF StartsWith(a, <<LPAR>>) /\ EndsWith(a, <<RPAR>>)
    THEN IntTuple(ParseAll(SplitComma(Slice(a, 1, Len(a) - 1))))
    ELSE IF StartsWith(a, <<"0", "x">>) THEN HexInt(Slice(a, 2, Len(a)))
    ELSE IF StartsWith(a, <<QUOTE>>) /\ EndsWith(a, <<QUOTE>>)
    THEN [err |-> "none", kind |-> "str", val |-> Slice(a, 1, Len(a) - 1)]
    ELSE DecInt(ParseInt(a))

\* QschTag.get_attr(index): [err, kind, val]
get_attr(node, index) ==
    IF index >= Len(node.tokens) THEN NoAttr("IndexError")
    ELSE AttrOf(At(node.tokens, index))

\* lines 113-121 of set_attr: the token that encodes value, a [kind, v]
AttrToken(value) ==
    IF value.kind = "int" THEN IntStr(value.v)
    ELSE IF StartsWith(value.v, <<"0", "x">>) THEN value.v
    ELSE <<QUOTE>> \o value.v \o <<QUOTE>>

\* QschTag.set_attr(index, value): [err, node]
set_attr(node, index, value) ==
    IF value.kind \notin {"int", "str"} THEN [err |-> "ValueError", node |-> node]
    ELSE IF index >= Len(node.tokens) THEN [err |-> "IndexError", node |-> node]
    ELSE [err |-> "none",
          node |-> [node EXCEPT !.tokens[index + 1] = AttrToken(value)]]

\* lines 126-128: a the outcome of get_items
OnlyText(node, a) ==
    IF a.err # "none" THEN [err |-> a.err, val |-> <<>>]
    ELSE IF Len(a.idx) # 1 THEN [err |-> "IndexError", val |-> <<>>]
    ELSE IF Len(node.items[a.idx[1]].tokens) < 2 THEN [err |-> "IndexError", val |-> <<>>]
    ELSE [err |-> "none", val |-> node.items[a.idx[1]].tokens[2]]

\* QschTag.get_text(label): [err, val]
get_text(node, label) == OnlyText(node, get_items(node.items, label \o <<":">>))

-----------------------------------------------------------------------------
(* The tag tree on its own: construct, set_attr, out, construct again *)

MaxLen == 5        \* streams have up to MaxLen characters after the opening delimiter
MaxSetAttr == 1    \* set_attr calls made on one tree

NoTree == [err |-> "unset", node |-> [tokens |-> <<>>, items |-> <<>>]]
NoCall == [op |-> "none", err |-> "none"]

Alphabet == {OPEN, CLOSE, SP, QUOTE, LPAR, RPAR, "a"}

\* longer streams, with attributes and children at two levels
LongStreams ==
    { <<OPEN, "a", SP, "1", SP, OPEN, "b", SP, "2", CLOSE, NL, CLOSE>>,
      <<OPEN, "a", SP, LPAR, "1", ",", SP, "2", RPAR, SP, QUOTE, "b", SP, "c", QUOTE, CLOSE>>,
      <<OPEN, "a", NL, OPEN, "b", NL, OPEN, "c", SP, "3", CLOSE, NL, CLOSE, NL, CLOSE, NL>> }

Streams ==
    { <<OPEN>> \o t : t \in UNION { [1..n -> Alphabet] : n \in 0..MaxLen } } \cup LongStreams

\* the values given to set_attr: ints, strings, and a value of another type
AttrValues ==
    { [kind |-> "int", v |-> 7], [kind |-> "int", v |-> -1],
      [kind |-> "str", v |-> <<"x">>], [kind |-> "str", v |-> <<"x", SP, "y">>],
      [kind |-> "str", v |-> <<"x", QUOTE, "y", SP, "z">>],
      [kind |-> "str", v |-> <<"0", "x", "1", SP, "2">>],
      [kind |-> "float", v |-> 0] }

RECURSIVE Paths(_)
\* the nodes of a tree, each as the list of child positions leading to it
Paths(node) ==
    {<<>>} \cup UNION { { <<k>> \o p : p \in Paths(node.items[k]) } : k \in DOMAIN node.items }

RECURSIVE NodeAt(_, _)
NodeAt(node, path) ==
    IF path = <<>> THEN node ELSE NodeAt(node.items[Head(path)], Tail(path))

RECURSIVE ReplaceAt(_, _, _)
ReplaceAt(node, path, new) ==
    IF path = <<>> THEN new
    ELSE [node EXCEPT !.items[Head(path)] = ReplaceAt(node.items[Head(path)], Tail(path), new)]

TagStart ==
    /\ stream \in Streams
    /\ tree = NoTree
    /\ text = <<>>
    /\ reparsed = NoTree
    /\ pc = "new"
    /\ nset = 0

EditorIdle ==
    /\ schematic = NoTree
    /\ heap = <<>>
    /\ symbols = <<>>
    /\ last = NoCall
    /\ nops = 0

\* tree = QschTag(stream, 0)
Construct ==
    /\ pc = "new"
    /\ LET r == QschTag(stream, 0)
       IN  /\ tree' = [err |-> r.err, node |-> NodeOf(r)]
           /\ pc' = IF r.err = "none" THEN "tree" ELSE "failed"
    /\ UNCHANGED <<stream, text, reparsed, nset>>
    /\ UNCHANGED editorVars

\* node.set_attr(index, value) on a node of the tree
SetAttr(path, index, value) ==
    /\ pc = "tree"
    /\ nset < MaxSetAttr
    /\ LET r == set_attr(NodeAt(tree.node, path), index, value)
       IN  tree' = [tree EXCEPT !.node = ReplaceAt(tree.node, path, r.node)]
    /\ nset' = nset + 1
    /\ UNCHANGED <<stream, text, reparsed, pc>>
    /\ UNCHANGED editorVars

\* text = tree.out(0)
Serialize ==
    /\ pc = "tree"
    /\ text' = out(tree.node, 0)
    /\ pc' = "text"
    /\ UNCHANGED <<stream, tree, reparsed, nset>>
    /\ UNCHANGED editorVars

\* reparsed = QschTag(text, 0)
Reparse ==
    /\ pc = "text"
    /\ LET r == QschTag(text, 0)
       IN  reparsed' = [err |-> r.err, node |-> NodeOf(r)]
    /\ pc' = "done"
    /\ UNCHANGED <<stream, tree, text, nset>>
    /\ UNCHANGED editorVars

TagNext ==
    \/ Construct
    \/ \E path \in Paths(tree.node) :
         \E index \in 0..Len(NodeAt(tree.node, path).tokens) :
           \E value \in AttrValues : SetAttr(path, index, value)
    \/ Serialize
    \/ Reparse

TagInit == TagStart /\ EditorIdle

SpecTag == TagInit /\ [][TagNext]_vars

-----------------------------------------------------------------------------
(* QschEditor: constants and the text the editor builds *)

QSCH_HEADER == <<"FF", "D8", "FF", "DB">>
QSCH_TEXT_POS == 1
QSCH_TEXT_STR_ATTR == 8
QSCH_SYMBOL_TEXT_REFDES == 0
QSCH_SYMBOL_TEXT_VALUE == 1
FAR == 100000           \* the start value of min_x and min_y, negated for max_x and max_y
TEXT_DROP == 24         \* how far below min_y a new text is put

S_text == <<"t", "e", "x", "t">>
S_component == <<"c", "o", "m", "p", "o", "n", "e", "n", "t">>
S_symbol == <<"s", "y", "m", "b", "o", "l">>
S_wire == <<"w", "i", "r", "e">>
S_net == <<"n", "e", "t">>
S_type == <<"t", "y", "p", "e">>
S_description == <<"d", "e", "s", "c", "r", "i", "p", "t", "i", "o", "n">>
S_PARAM == <<".", "P", "A", "R", "A", "M">>
S_param == <<".", "p", "a", "r", "a", "m">>

\* spicelib's UNIQUE_SIMULATION_DOT_INSTRUCTIONS: the directives a document holds once
UNIQUE_SIMULATION_DOT_INSTRUCTIONS ==
    { <<".", "A", "C">>, <<".", "D", "C">>, <<".", "T", "R", "A", "N">>,
      <<".", "N", "O", "I", "S", "E">>, <<".", "T", "F">> }

\* str(value) of an f-string, value a [kind, v]
Str(value) == IF value.kind = "int" THEN IntStr(value.v) ELSE value.v

\* three decimals of r in 0..999 without the trailing zeros, as '{:g}' prints them
Decimals(r) ==
    LET d == <<Digits[(r \div 100) + 1], Digits[((r \div 10) % 10) + 1], Digits[(r % 10) + 1]>>
    IN  IF r % 10 # 0 THEN d ELSE IF r % 100 # 0 THEN SubSeq(d, 1, 2) ELSE SubSeq(d, 1, 1)

\* spicelib's format_eng for an int of magnitude below 10^6: engineering notation
format_eng(v) ==
    LET a == IF v < 0 THEN -v ELSE v
        sign == IF v < 0 THEN <<"-">> ELSE <<>>
    IN  IF a < 1000 THEN IntStr(v)
        ELSE sign \o NatStr(a \div 1000)
             \o (IF a % 1000 = 0 THEN <<>> ELSE <<".">> \o Decimals(a % 1000))
             \o <<"k">>

\* lines 250-253: the string set_component_value stores for value
ValueStr(value) == IF value.kind = "str" THEN value.v ELSE format_eng(value.v)

\* the f-string of lines 244 and 326
TextTagStream(x, y, content) ==
    <<OPEN>> \o S_text \o <<SP, LPAR>> \o IntStr(x) \o <<",">> \o IntStr(y)
    \o <<RPAR, SP, "1", SP, "0", SP, "0", SP, "0", "x", "1", "0", "0", "0", "0", "0", "0",
         SP, "-", "1", SP, "-", "1", SP, QUOTE>>
    \o content \o <<QUOTE, CLOSE>>

\* PARAM_REGEX: the index after the name at p and the spaces that follow it
EqAt(line, param, p) == SkipFrom(line, p + Len(param), {SP})

\* PARAM_REGEX: the name stands at p, after a space and before an "="
NameAt(line, param, p) ==
    /\ p >= 1
    /\ p + Len(param) <= Len(line)
    /\ At(line, p - 1) = SP
    /\ ToUpper(Slice(line, p, p + Len(param))) = ToUpper(param)
    /\ EqAt(line, param, p) < Len(line)
    /\ At(line, EqAt(line, param, p)) = "="

\* PARAM_REGEX: the match of the name at p whose value starts at v0 and stops at v1
MatchAt(line, p, v0, v1) ==
    [found |-> TRUE, start |-> p, stop |-> v1, value |-> Slice(line, v0, v1)]

\* PARAM_REGEX: the value starts at v0 and runs up to the next whitespace
MatchFrom(line, p, v0) == MatchAt(line, p, v0, FindFrom(line, v0, {SP, NL}))

\* the leftmost match among the places hits where the name stands
MatchOf(line, param, hits) ==
    IF hits = {} THEN [found |-> FALSE, start |-> 0, stop |-> 0, value |-> <<>>]
    ELSE MatchFrom(line, Min(hits), SkipFrom(line, EqAt(line, param, Min(hits)) + 1, {SP}))

\* spicelib's PARAM_REGEX % param, compiled with IGNORECASE, searched in line:
\* [found, start, stop, value], start..stop the span of the group 'replace' (name=value).
\* The name follows a space, "=" may have spaces around it, and the group 'value' is
\* the run of characters up to the next whitespace.
ParamSearch(line, param) ==
    MatchOf(line, param, {p \in 0..(Len(line) - 1) : NameAt(line, param, p)})

-----------------------------------------------------------------------------
(* QschEditor: loading.  The root is [tokens, items] with items a list of object ids;
   heap maps each id to the child QschTag object [tokens, items]. *)

\* the child objects of the root, in order
RootItems(sch, hp) == [k \in DOMAIN sch.items |-> hp[sch.items[k]]]

NoEntry(e) == [err |-> e, key |-> <<>>, info |-> <<>>]

\* lines 190-195: the entry of one component, refdes and value the outcomes of get_attr
EntryInfo(id, typ, desc, refdes, value) ==
    IF refdes.err # "none" THEN NoEntry(refdes.err)
    ELSE IF value.err # "none" THEN NoEntry(value.err)
    ELSE [err |-> "none", key |-> refdes.val,
          info |-> [type |-> typ.val, description |-> desc.val, model |-> value.val,
                    tag |-> id]]

\* lines 183-189: typ and desc the outcomes of get_text, texts that of get_items, pos
\* that of the c.get_attr(1) in the message of the RuntimeError
EntryOfTexts(id, pos, symbol, typ, desc, texts) ==
    IF typ.err # "none" THEN NoEntry(typ.err)
    ELSE IF desc.err # "none" THEN NoEntry(desc.err)
    ELSE IF texts.err # "none" THEN NoEntry(texts.err)
    ELSE IF Len(texts.idx) < 2
    THEN NoEntry(IF pos.err # "none" THEN pos.err ELSE "RuntimeError")
    ELSE EntryInfo(id, typ, desc,
                   get_attr(symbol.items[texts.idx[QSCH_SYMBOL_TEXT_REFDES + 1]],
                            QSCH_TEXT_STR_ATTR),
                   get_attr(symbol.items[texts.idx[QSCH_SYMBOL_TEXT_VALUE + 1]],
                            QSCH_TEXT_STR_ATTR))

\* line 182: symbol = component.get_items('symbol')[0], syms the outcome of get_items
EntryOfSymbol(component, id, syms) ==
    IF syms.err # "none" THEN NoEntry(syms.err)
    ELSE IF Len(syms.idx) = 0 THEN NoEntry("IndexError")
    ELSE EntryOfTexts(id, get_attr(component, 1), component.items[syms.idx[1]],
                      get_text(component.items[syms.idx[1]], S_type),
                      get_text(component.items[syms.idx[1]], S_description),
                      get_items(component.items[syms.idx[1]].items, S_text))

\* lines 182-195 for one component object: [err, key, info]
ComponentEntry(component, id) ==
    EntryOfSymbol(component, id, get_items(component.items, S_symbol))

\* the position of key in the dict, or 0
SymbolsFind(syms, key) ==
    IF \E k \in DOMAIN syms : syms[k].key = key
    THEN CHOOSE k \in DOMAIN syms : syms[k].key = key
    ELSE 0

\* the dict keeps the entry it already has for key
SymbolsPutFirst(syms, key, info) ==
    IF \E k \in DOMAIN syms : syms[k].key = key THEN syms
    ELSE Append(syms, [key |-> key, info |-> info])

\* line 190: self._symbols[refdes] = info; an existing key keeps its place and takes
\* the new value
SymbolsPut(syms, key, info) ==
    LET k == SymbolsFind(syms, key)
    IN  IF k = 0 THEN Append(syms, [key |-> key, info |-> info])
        ELSE [syms EXCEPT ![k] = [key |-> key, info |-> info]]

\* one turn of the loop of line 181: the index after the component whose entry is e,
\* from the outcome prev of the turns before
Indexed(prev, e) ==
    IF prev.err # "none" THEN prev
    ELSE IF e.err # "none" THEN [err |-> e.err, symbols |-> prev.symbols]
    ELSE [err |-> "none", symbols |-> SymbolsPut(prev.symbols, e.key, e.info)]

\* lines 181-195 over the component children at the positions comps of the root
IndexOf(sch, hp, comps) ==
    LET F[k \in 0..Len(comps)] ==
            IF k = 0 THEN [err |-> "none", symbols |-> <<>>]
            ELSE Indexed(F[k - 1], ComponentEntry(hp[sch.items[comps[k]]], sch.items[comps[k]]))
    IN  F[Len(comps)]

\* lines 180-195, comps the outcome of get_items
IndexFrom(sch, hp, comps) ==
    IF comps.err # "none" THEN [err |-> comps.err, symbols |-> <<>>]
    ELSE IndexOf(sch, hp, comps.idx)

\* lines 180-195: the scan of the root's component children, from an empty index:
\* [err, symbols], the index as it stands when the loop ends or raises
BuildIndex(sch, hp) == IndexFrom(sch, hp, get_items(RootItems(sch, hp), S_component))

EmptyNode == [tokens |-> <<>>, items |-> <<>>]

\* lines 178-195: the tree r is kept as the schematic and indexed, ix the outcome of
\* BuildIndex
Kept(sch, hp, ix) ==
    [err |-> ix.err, stage |-> "index", schematic |-> sch, heap |-> hp, symbols |-> ix.symbols]

\* line 178: the root with its children named by their object ids
RootOf(r) == [tokens |-> r.tokens, items |-> [k \in DOMAIN r.items |-> k]]

\* lines 171-195, r the outcome of QschTag(stream, 4)
Loaded(s, r) ==
    IF Slice(s, 0, IF Len(s) < 4 THEN Len(s) ELSE 4) # QSCH_HEADER
    THEN [err |-> "QschReadingError", stage |-> "header", schematic |-> EmptyNode,
          heap |-> <<>>, symbols |-> <<>>]
    ELSE IF r.err # "none"
    THEN [err |-> r.err, stage |-> "tree", schematic |-> EmptyNode, heap |-> <<>>,
          symbols |-> <<>>]
    ELSE Kept(RootOf(r), r.items, BuildIndex(RootOf(r), r.items))

\* _parse_qsch_stream(stream) as far as it depends on the stream alone:
\* [err, stage, schematic, heap, symbols].  stage says how far it got: "header" and
\* "tree" raise before line 178 assigns self.schematic, "index" after it.
ParseStream(s) == Loaded(s, QschTag(s, 4))

\* line 169: self._symbols.clear()
Cleared(syms) == <<>>

\* the editor after _parse_qsch_stream, given the outcome p of ParseStream:
\* [schematic, heap, symbols]
AfterParse(sch, hp, syms, p) ==
    IF p.stage = "index"
    THEN [schematic |-> p.schematic, heap |-> p.heap, symbols |-> p.symbols]
    ELSE [schematic |-> sch, heap |-> hp, symbols |-> Cleared(syms)]

-----------------------------------------------------------------------------
(* QschEditor: queries *)

\* get_component_info(component): [err, info]
get_component_info(syms, component) ==
    LET k == SymbolsFind(syms, component)
    IN  IF k = 0 THEN [err |-> "ComponentNotFoundError", info |-> <<>>]
        ELSE [err |-> "none", info |-> syms[k].info]

\* get_component_value(element): [err, val]
get_component_value(syms, element) ==
    LET c == get_component_info(syms, element)
    IN  IF c.err # "none" THEN [err |-> c.err, val |-> <<>>]
        ELSE [err |-> "none", val |-> c.info.model]

\* get_components('*')
get_components(syms) == [k \in DOMAIN syms |-> syms[k].key]

\* the str methods the callers use on the outcome a of get_attr: [err, val]
StrOf(a) ==
    IF a.err # "none" THEN [err |-> a.err, val |-> <<>>]
    ELSE IF a.kind # "str" THEN [err |-> "AttributeError", val |-> <<>>]
    ELSE [err |-> "none", val |-> a.val]

\* lines 208 and 316: the text of a text child, then used as a str: [err, val]
TextLine(node) == StrOf(get_attr(node, QSCH_TEXT_STR_ATTR))

NoMatch(e) == [err |-> e, found |-> FALSE, id |-> 0, line |-> <<>>]

\* lines 209-212 on the text child id, line the outcome of TextLine
MatchLine(id, line, command, param) ==
    IF line.err # "none" THEN NoMatch(line.err)
    ELSE IF /\ StartsWith(ToUpper(line.val), ToUpper(command))
            /\ ParamSearch(line.val, param).found
    THEN [err |-> "none", found |-> TRUE, id |-> id, line |-> line.val]
    ELSE NoMatch("none")

\* a for loop that returns or raises in the turn m, or goes on to the turns rest
FirstOf(m, rest) == IF m.err # "none" \/ m.found THEN m ELSE rest

\* lines 207-214, texts the outcome of get_items
MatchingIn(sch, hp, texts, command, param) ==
    LET F[k \in 1..(Len(texts.idx) + 1)] ==
            IF k > Len(texts.idx) THEN NoMatch("none")
            ELSE FirstOf(MatchLine(sch.items[texts.idx[k]],
                                   TextLine(hp[sch.items[texts.idx[k]]]), command, param),
                         F[k + 1])
    IN  IF texts.err # "none" THEN NoMatch(texts.err) ELSE F[1]

\* _get_text_matching(command, re.compile(PARAM_REGEX % param)):
\* [err, found, id, line], id the object id of the first matching text child
get_text_matching(sch, hp, command, param) ==
    MatchingIn(sch, hp, get_items(RootItems(sch, hp), S_text), command, param)

\* lines 219-222, m the outcome of _get_text_matching
ValueOf(m, param) ==
    IF m.err # "none" THEN [err |-> m.err, val |-> <<>>]
    ELSE IF m.found THEN [err |-> "none", val |-> ParamSearch(m.line, param).value]
    ELSE [err |-> "ParameterNotFoundError", val |-> <<>>]

\* get_parameter(param): [err, val]
get_parameter(sch, hp, param) == ValueOf(get_text_matching(sch, hp, S_PARAM, param), param)

NoPoint(e) == [err |-> e, x |-> 0, y |-> 0]

\* x, y = a, a the outcome of get_attr
PointOf(a) ==
    IF a.err # "none" THEN NoPoint(a.err)
    ELSE IF a.kind = "int" THEN NoPoint("TypeError")
    ELSE IF Len(a.val) # 2 THEN NoPoint("ValueError")
    ELSE IF a.kind = "str" THEN NoPoint("TypeError")
    ELSE [err |-> "none", x |-> a.val[1], y |-> a.val[2]]

\* lines 293, 296-297, 299: x, y = tag.get_attr(index): [err, x, y]
GetPoint(node, index) == PointOf(get_attr(node, index))

Min2(a, b) == IF a <= b THEN a ELSE b
Max2(a, b) == IF a >= b THEN a ELSE b

\* lines 292-300, t the outcome of tag.tag, p1 and p2 those of get_attr(1) and (2)
PointsFrom(prev, t, p1, p2) ==
    IF t.err # "none" THEN [prev EXCEPT !.err = t.err]
    ELSE IF t.val = S_component \/ t.val = S_net
    THEN IF p1.err # "none" THEN [prev EXCEPT !.err = p1.err]
         ELSE [prev EXCEPT !.bound = TRUE, !.x1 = p1.x, !.y1 = p1.y, !.x2 = p1.x, !.y2 = p1.y]
    ELSE IF t.val = S_wire
    THEN IF p1.err # "none" THEN [prev EXCEPT !.err = p1.err]
         ELSE IF p2.err # "none" THEN [prev EXCEPT !.err = p2.err]
         ELSE [prev EXCEPT !.bound = TRUE, !.x1 = p1.x, !.y1 = p1.y, !.x2 = p2.x, !.y2 = p2.y]
    ELSE IF ~prev.bound THEN [prev EXCEPT !.err = "UnboundLocalError"]
    ELSE prev

\* lines 292-300: the x1, y1, x2, y2 one child leaves, from those the child before left;
\* a child that is no component, wire or net leaves them as they were
PointsOf(node, prev) ==
    IF prev.err # "none" THEN prev
    ELSE PointsFrom(prev, tag(node), GetPoint(node, 1), GetPoint(node, 2))

\* lines 302-305
Widened(q) ==
    IF q.err # "none" THEN q
    ELSE [q EXCEPT !.min_x = Min2(Min2(@, q.x1), q.x2),
                   !.max_x = Max2(Max2(@, q.x1), q.x2),
                   !.min_y = Min2(Min2(@, q.y1), q.y2),
                   !.max_y = Max2(Max2(@, q.y1), q.y2)]

\* line 307
Corner(end) == [err |-> end.err, x |-> end.min_x, y |-> end.min_y - TEXT_DROP]

\* lines 287-307 over the children items
TextSpaceOf(items) ==
    LET F[k \in 0..Len(items)] ==
            IF k = 0
            THEN [err |-> "none", bound |-> FALSE, x1 |-> 0, y1 |-> 0, x2 |-> 0, y2 |-> 0,
                  min_x |-> FAR, max_x |-> -FAR, min_y |-> FAR, max_y |-> -FAR]
            ELSE Widened(PointsOf(items[k], F[k - 1]))
    IN  Corner(F[Len(items)])

\* _get_text_space(): [err, x, y]
get_text_space(sch, hp) == TextSpaceOf(RootItems(sch, hp))

-----------------------------------------------------------------------------
(* QschEditor: edits.  Each gives [err, schematic, heap], the editor as the call
   leaves it, whether it returns or raises err. *)

Same(sch, hp, e) == [err |-> e, schematic |-> sch, heap |-> hp]

\* list.remove(x): the list without its first x
RemoveFirst(items, x) ==
    LET k == Min({j \in DOMAIN items : items[j] = x})
    IN  SubSeq(items, 1, k - 1) \o SubSeq(items, k + 1, Len(items))

\* the text cut at the start of the match, with name=value in place of its rest
SplicedToEnd(line, param, value_str, m) ==
    Slice(line, 0, m.start) \o param \o <<"=">> \o value_str

\* line 236: the text with the span m of the match replaced
Spliced(line, param, value_str, m) ==
    Slice(line, 0, m.start) \o param \o <<"=">> \o value_str \o Slice(line, m.stop, Len(line))

\* lines 234-236: the search repeated on the text, and the text with name=value replaced
SpliceParam(line, param, value_str) ==
    Spliced(line, param, value_str, ParamSearch(line, param))

\* the object id in place of its node, r the outcome of set_attr on it
Replaced(sch, hp, id, r) ==
    [err |-> r.err, schematic |-> sch, heap |-> [hp EXCEPT ![id] = r.node]]

\* lines 237-239, r the outcome of set_attr
UpdatedText(sch, hp, id, r) ==
    IF r.err # "none" THEN Same(sch, hp, r.err)
    ELSE [Replaced(sch, hp, id, r) EXCEPT !.err = get_attr(r.node, QSCH_TEXT_POS).err]

\* the first of two outcomes that raised
FirstErr(a, b) == IF a.err # "none" THEN a.err ELSE b.err

\* line 245: self.schematic.items.append(tag), the new object taking the next id;
\* line 247 then reads the tag back
AppendTag(sch, hp, node) ==
    [err |-> FirstErr(get_attr(node, QSCH_TEXT_POS), get_attr(node, QSCH_TEXT_STR_ATTR)),
     schematic |-> [sch EXCEPT !.items = Append(@, Len(hp) + 1)],
     heap |-> Append(hp, node)]

\* lines 244-247, t the outcome of QschTag
Appended(sch, hp, t) ==
    IF t.err # "none" THEN Same(sch, hp, t.err) ELSE AppendTag(sch, hp, NodeOf(t))

\* lines 243-247, sp the outcome of _get_text_space
AddedText(sch, hp, content, sp) ==
    IF sp.err # "none" THEN Same(sch, hp, sp.err)
    ELSE Appended(sch, hp, QschTag(TextTagStream(sp.x, sp.y, content), 0))

\* lines 227-247, m the outcome of _get_text_matching
SetParamAt(sch, hp, param, value, m) ==
    IF m.err # "none" THEN Same(sch, hp, m.err)
    ELSE IF m.found
    THEN UpdatedText(sch, hp, m.id,
                     set_attr(hp[m.id], QSCH_TEXT_STR_ATTR,
                              [kind |-> "str", v |-> SpliceParam(m.line, param, ValueStr(value))]))
    ELSE AddedText(sch, hp, S_param \o <<SP>> \o param \o <<"=">> \o Str(value),
                   get_text_space(sch, hp))

\* set_parameter(param, value)
set_parameter(sch, hp, param, value) ==
    SetParamAt(sch, hp, param, value, get_text_matching(sch, hp, S_PARAM, param))

\* lines 262-264, r the outcome of set_attr on the text at vpos of the symbol at spos
ModelSet(sch, hp, id, spos, vpos, r) ==
    IF r.err # "none" THEN Same(sch, hp, r.err)
    ELSE [err |-> get_attr(hp[id], 1).err, schematic |-> sch,
          heap |-> [hp EXCEPT ![id].items[spos].items[vpos] = r.node]]

\* lines 261-262, refdes the outcome of get_attr on the first text, tpos the positions
\* of the texts
ModelChecked(sch, hp, device, model, id, spos, tpos, refdes) ==
    IF refdes.err # "none" THEN Same(sch, hp, refdes.err)
    ELSE IF ~(refdes.kind = "str" /\ refdes.val = device) THEN Same(sch, hp, "AssertionError")
    ELSE IF Len(tpos) <= QSCH_SYMBOL_TEXT_VALUE THEN Same(sch, hp, "IndexError")
    ELSE ModelSet(sch, hp, id, spos, tpos[QSCH_SYMBOL_TEXT_VALUE + 1],
                  set_attr(hp[id].items[spos].items[tpos[QSCH_SYMBOL_TEXT_VALUE + 1]],
                           QSCH_TEXT_STR_ATTR, [kind |-> "str", v |-> model]))

\* lines 260-261, texts the outcome of get_items on the symbol at spos
ModelOfTexts(sch, hp, device, model, id, spos, texts) ==
    IF texts.err # "none" THEN Same(sch, hp, texts.err)
    ELSE IF Len(texts.idx) <= QSCH_SYMBOL_TEXT_REFDES THEN Same(sch, hp, "IndexError")
    ELSE ModelChecked(sch, hp, device, model, id, spos, texts.idx,
                      get_attr(hp[id].items[spos].items[texts.idx[QSCH_SYMBOL_TEXT_REFDES + 1]],
                               QSCH_TEXT_STR_ATTR))

\* lines 259-260, ss the outcome of get_items on the component
ModelOfSymbol(sch, hp, device, model, id, ss) ==
    IF ss.err # "none" THEN Same(sch, hp, ss.err)
    ELSE IF Len(ss.idx) = 0 THEN Same(sch, hp, "IndexError")
    ELSE ModelOfTexts(sch, hp, device, model, id, ss.idx[1],
                      get_items(hp[id].items[ss.idx[1]].items, S_text))

\* lines 257-259, c the outcome of get_component_info
ModelOfInfo(sch, hp, device, model, c) ==
    IF c.err # "none" THEN Same(sch, hp, c.err)
    ELSE ModelOfSymbol(sch, hp, device, model, c.info.tag,
                       get_items(hp[c.info.tag].items, S_symbol))

\* set_element_model(device, model)
set_element_model(sch, hp, syms, device, model) ==
    ModelOfInfo(sch, hp, device, model, get_component_info(syms, device))

\* set_component_value(device, value)
set_component_value(sch, hp, syms, device, value) ==
    set_element_model(sch, hp, syms, device, ValueStr(value))

\* line 327: self.schematic.items(tag) calls the list: [err, schematic, heap]
ItemsCall(sch, hp, node) == Same(sch, hp, "TypeError")

\* lines 326-327, t the outcome of QschTag
ItemsCalled(sch, hp, t) ==
    IF t.err # "none" THEN Same(sch, hp, t.err) ELSE ItemsCall(sch, hp, NodeOf(t))

\* lines 325-327, sp the outcome of _get_text_space
AppendAt(sch, hp, instruction, sp) ==
    IF sp.err # "none" THEN Same(sch, hp, sp.err)
    ELSE ItemsCalled(sch, hp, QschTag(TextTagStream(sp.x, sp.y, instruction), 0))

\* lines 325-327 of add_instruction
AppendInstruction(sch, hp, instruction) ==
    AppendAt(sch, hp, instruction, get_text_space(sch, hp))

\* a for loop that returns or raises with step.r in one turn, or goes on to the turns rest
OrElse(step, rest) == IF step.done THEN step.r ELSE rest

Done(r) == [done |-> TRUE, r |-> r]
GoOn(sch, hp) == [done |-> FALSE, r |-> Same(sch, hp, "none")]

\* lines 316-320 on the text child id, line the outcome of TextLine: [done, r]
ReplaceUnique(sch, hp, id, line, ins) ==
    IF line.err # "none" THEN Done(Same(sch, hp, line.err))
    ELSE IF FirstWord(line.val) = <<>> THEN Done(Same(sch, hp, "IndexError"))
    ELSE IF ToUpper(FirstWord(line.val)) \in UNIQUE_SIMULATION_DOT_INSTRUCTIONS
    THEN Done(Replaced(sch, hp, id,
                       set_attr(hp[id], QSCH_TEXT_STR_ATTR, [kind |-> "str", v |-> ins])))
    ELSE GoOn(sch, hp)

\* lines 315-327 for a unique command, texts the outcome of get_items
ReplaceIn(sch, hp, texts, ins) ==
    LET F[k \in 1..(Len(texts.idx) + 1)] ==
            IF k > Len(texts.idx) THEN AppendInstruction(sch, hp, ins)
            ELSE OrElse(ReplaceUnique(sch, hp, sch.items[texts.idx[k]],
                                      TextLine(hp[sch.items[texts.idx[k]]]), ins),
                        F[k + 1])
    IN  IF texts.err # "none" THEN Same(sch, hp, texts.err) ELSE F[1]

\* lines 311-327, ins the stripped instruction and word its split()[0]
AddCommand(sch, hp, ins, word) ==
    IF word = <<>> THEN Same(sch, hp, "IndexError")
    ELSE IF ToUpper(word) \in UNIQUE_SIMULATION_DOT_INSTRUCTIONS
    THEN ReplaceIn(sch, hp, get_items(RootItems(sch, hp), S_text), ins)
    ELSE IF StartsWith(ToUpper(word), S_PARAM) THEN Same(sch, hp, "RuntimeError")
    ELSE AppendInstruction(sch, hp, ins)

\* lines 310-327, ins the stripped instruction
AddStripped(sch, hp, ins) == AddCommand(sch, hp, ins, FirstWord(ins))

\* add_instruction(instruction)
add_instruction(sch, hp, instruction) == AddStripped(sch, hp, Strip(instruction))

\* line 332: instruction in text_tag, the QschTag object: [err, val]
InTag(instruction, node) == [err |-> "TypeError", val |-> FALSE]

\* lines 331-334 on the text child id, a the outcome of get_attr and c that of the
\* membership test: [done, r]
RemoveIf(sch, hp, id, a, c) ==
    IF a.err # "none" THEN Done(Same(sch, hp, a.err))
    ELSE IF c.err # "none" THEN Done(Same(sch, hp, c.err))
    ELSE IF c.val
    THEN Done([err |-> "none", schematic |-> [sch EXCEPT !.items = RemoveFirst(@, id)],
               heap |-> hp])
    ELSE GoOn(sch, hp)

\* lines 330-338, texts the outcome of get_items
RemoveIn(sch, hp, texts, instruction) ==
    LET F[k \in 1..(Len(texts.idx) + 1)] ==
            IF k > Len(texts.idx) THEN Same(sch, hp, "RuntimeError")
            ELSE OrElse(RemoveIf(sch, hp, sch.items[texts.idx[k]],
                                 get_attr(hp[sch.items[texts.idx[k]]], QSCH_TEXT_STR_ATTR),
                                 InTag(instruction, hp[sch.items[texts.idx[k]]])),
                        F[k + 1])
    IN  IF texts.err # "none" THEN Same(sch, hp, texts.err) ELSE F[1]

\* remove_instruction(instruction)
remove_instruction(sch, hp, instruction) ==
    RemoveIn(sch, hp, get_items(RootItems(sch, hp), S_text), instruction)

\* lines 280-281, c the outcome of get_component_info
RemovedTag(sch, hp, c) ==
    IF c.err # "none" THEN Same(sch, hp, c.err)
    ELSE IF c.info.tag \notin Range(sch.items) THEN Same(sch, hp, "ValueError")
    ELSE [err |-> "none", schematic |-> [sch EXCEPT !.items = RemoveFirst(@, c.info.tag)],
          heap |-> hp]

\* remove_component(designator)
remove_component(sch, hp, syms, designator) ==
    RemovedTag(sch, hp, get_component_info(syms, designator))

-----------------------------------------------------------------------------
(* The files the editor reads, and the arguments of its calls *)

MaxOps == 2     \* calls made on one editor after its construction

R1 == <<"R", "1">>
R2 == <<"R", "2">>
Z9 == <<"Z", "9">>
V10k == <<"1", "0", "k">>
V20k == <<"2", "0", "k">>
V22k == <<"2", "2", "k">>
P_run == <<"r", "u", "n">>
P_zz == <<"z", "z">>
L_params == S_param \o <<SP, "r", "u", "n", "=", "1", SP, "x", "=", "2">>
L_tran1 == <<".", "t", "r", "a", "n", SP, "1">>
L_tran5 == <<".", "t", "r", "a", "n", SP, "5">>
L_ac == <<".", "a", "c", SP, "1">>
L_meas == <<".", "m", "e", "a", "s", SP, "x">>
L_param_a == S_param \o <<SP, "a", "=", "1">>

\* a component node as QSPICE writes it: a symbol with type, description and texts
ComponentStream(x, y, typ, desc, texts) ==
    <<OPEN>> \o S_component \o <<SP, LPAR>> \o IntStr(x) \o <<",">> \o IntStr(y)
    \o <<RPAR, SP, "0", SP, "0", NL>>
    \o <<OPEN>> \o S_symbol \o <<SP>> \o typ \o <<NL>>
    \o <<OPEN>> \o S_type \o <<":", SP>> \o typ \o <<CLOSE, NL>>
    \o <<OPEN>> \o S_description \o <<":", SP>> \o desc \o <<CLOSE, NL>>
    \o Concat([k \in DOMAIN texts |-> TextTagStream(0, k, texts[k]) \o <<NL>>])
    \o <<CLOSE, NL, CLOSE>>

WireStream ==
    <<OPEN>> \o S_wire \o <<SP, LPAR, "0", ",", "0", RPAR, SP, LPAR, "8", ",", "0", RPAR, CLOSE>>

\* a file: the header, then the root with the given children, as write_netlist lays it out
Doc(header, kids) ==
    header \o <<OPEN, "s", "c", "h", NL>>
    \o Concat([k \in DOMAIN kids |-> kids[k] \o <<NL>>]) \o <<CLOSE, NL>>

FileNames == {"amp", "dup", "textfirst", "notexts", "badheader", "truncated"}

File(name) ==
    CASE name = "amp" ->
           Doc(QSCH_HEADER, << ComponentStream(1, 2, <<"R">>, <<"a">>, <<R1, V10k>>), WireStream,
                               TextTagStream(5, 6, L_params), TextTagStream(5, 7, L_tran1) >>)
      [] name = "dup" ->
           Doc(QSCH_HEADER, << ComponentStream(1, 2, <<"R">>, <<"a">>, <<R1, V10k>>),
                               ComponentStream(3, 4, <<"C">>, <<"b">>, <<R1, V20k>>) >>)
      [] name = "textfirst" ->
           Doc(QSCH_HEADER, << TextTagStream(5, 6, L_params),
                               ComponentStream(1, 2, <<"R">>, <<"a">>, <<R1, V10k>>) >>)
      [] name = "notexts" ->
           Doc(QSCH_HEADER, << ComponentStream(1, 2, <<"R">>, <<"a">>, <<R2, V10k>>),
                               ComponentStream(3, 4, <<"C">>, <<"b">>, <<R1>>) >>)
      [] name = "badheader" ->
           Doc(<<"FF", "D8", "FF", "E0">>, << WireStream >>)
      [] name = "truncated" ->
           QSCH_HEADER \o <<OPEN, "s", "c", "h", NL>> \o WireStream \o <<NL>>

\* what _parse_qsch_stream makes of each file
Parsed == [name \in FileNames |-> ParseStream(File(name))]

Devices == {R1, Z9}
ComponentValues == { [kind |-> "int", v |-> 3300], [kind |-> "str", v |-> V22k] }
Params == {P_run, P_zz}
ParamValues ==
    { [kind |-> "int", v |-> 3300], [kind |-> "str", v |-> V22k],
      [kind |-> "str", v |-> <<"a", SP, "b">>] }
Instructions == {L_tran5, L_ac, L_meas, L_param_a}
RemoveTexts == { <<".", "t", "r", "a", "n">>, P_zz }

-----------------------------------------------------------------------------
(* The editor: construction and calls *)

TagIdle ==
    /\ stream = <<>>
    /\ tree = NoTree
    /\ text = <<>>
    /\ reparsed = NoTree
    /\ pc = "off"
    /\ nset = 0

\* QschEditor(asc_file) that returned: lines 136-141 on a file that loads
Init ==
    /\ \E name \in FileNames :
         \E p \in {Parsed[name]} :
           /\ p.err = "none"
           /\ schematic = p.schematic
           /\ heap = p.heap
           /\ symbols = p.symbols
           /\ last = [op |-> "__init__", err |-> "none", file |-> name]
    /\ nops = 0
    /\ TagIdle

\* reset_netlist(), the file holding what File(name) says at that moment
ResetNetlist(name) ==
    /\ nops < MaxOps
    /\ \E p \in {Parsed[name]} :
         \E a \in {AfterParse(schematic, heap, symbols, p)} :
           /\ schematic' = a.schematic
           /\ heap' = a.heap
           /\ symbols' = a.symbols
           /\ last' = [op |-> "reset_netlist", err |-> p.err, file |-> name]
    /\ nops' = nops + 1
    /\ UNCHANGED tagVars

SetComponentValue(device, value) ==
    /\ nops < MaxOps
    /\ \E r \in {set_component_value(schematic, heap, symbols, device, value)} :
         /\ schematic' = r.schematic
         /\ heap' = r.heap
         /\ last' = [op |-> "set_component_value", err |-> r.err, device |-> device,
                     value |-> value]
    /\ nops' = nops + 1
    /\ UNCHANGED symbols
    /\ UNCHANGED tagVars

SetParameter(param, value) ==
    /\ nops < MaxOps
    /\ \E r \in {set_parameter(schematic, heap, param, value)} :
         /\ schematic' = r.schematic
         /\ heap' = r.heap
         /\ last' = [op |-> "set_parameter", err |-> r.err, param |-> param, value |-> value]
    /\ nops' = nops + 1
    /\ UNCHANGED symbols
    /\ UNCHANGED tagVars

AddInstruction(instruction) ==
    /\ nops < MaxOps
    /\ \E r \in {add_instruction(schematic, heap, instruction)} :
         /\ schematic' = r.schematic
         /\ heap' = r.heap
         /\ last' = [op |-> "add_instruction", err |-> r.err, instruction |-> instruction]
    /\ nops' = nops + 1
    /\ UNCHANGED symbols
    /\ UNCHANGED tagVars

RemoveInstruction(instruction) ==
    /\ nops < MaxOps
    /\ \E r \in {remove_instruction(schematic, heap, instruction)} :
         /\ schematic' = r.schematic
         /\ heap' = r.heap
         /\ last' = [op |-> "remove_instruction", err |-> r.err, instruction |-> instruction]
    /\ nops' = nops + 1
    /\ UNCHANGED symbols
    /\ UNCHANGED tagVars

RemoveComponent(designator) ==
    /\ nops < MaxOps
    /\ \E r \in {remove_component(schematic, heap, symbols, designator)} :
         /\ schematic' = r.schematic
         /\ heap' = r.heap
         /\ last' = [op |-> "remove_component", err |-> r.err, designator |-> designator]
    /\ nops' = nops + 1
    /\ UNCHANGED symbols
    /\ UNCHANGED tagVars

Next ==
    \/ \E name \in FileNames : ResetNetlist(name)
    \/ \E device \in Devices : \E value \in ComponentValues : SetComponentValue(device, value)
    \/ \E param \in Params : \E value \in ParamValues : SetParameter(param, value)
    \/ \E instruction \in Instructions : AddInstruction(instruction)
    \/ \E instruction \in RemoveTexts : RemoveInstruction(instruction)
    \/ \E designator \in Devices : RemoveComponent(designator)

Spec == Init /\ [][Next]_vars

-----------------------------------------------------------------------------
(* Claims about the tag tree, checked under SpecTag *)

\* C2: after the constructor and any set_attr calls with int or string values,
\* constructing a tree from the text of out(0) succeeds and gives the same tokens and the
\* same children at every node.
C2_RoundTrip ==
    pc = "done" => reparsed.err = "none" /\ reparsed.node = tree.node

\* the round trip of a tree that no set_attr call touched
RoundTripUnmutated ==
    pc = "done" /\ nset = 0 => reparsed.err = "none" /\ reparsed.node = tree.node

\* C8: a constructor call that does not find the close delimiter of its node fails
\* with the IOError "Missing >>" and with no other error.
C8_UnterminatedIsIOError ==
    pc = "failed" => tree.err = "IOError"

\* C10: every node of a tree the constructor returns, or set_attr then changes, has a
\* non-empty token list whose first token is not empty.
C10_TagNeverEmpty ==
    pc \in {"tree", "text", "done"} =>
        \A path \in Paths(tree.node) :
            LET n == NodeAt(tree.node, path)
            IN  Len(n.tokens) > 0 /\ Len(n.tokens[1]) > 0

\* the scan resuming at the character right after a child, as [i, i0]
RightAfter(stop) == [i |-> stop, i0 |-> stop]

RECURSIVE BracketTag(_, _), BracketScan(_, _, _, _, _)

\* the scan of a node in which nothing is skipped after a child
BracketScan(s, i, i0, tokens, items) ==
    IF i >= Len(s) THEN Failed("IOError")
    ELSE IF At(s, i) = OPEN
    THEN LET child == BracketTag(s, i)
         IN  IF child.err # "none" THEN Failed(child.err)
             ELSE BracketScan(s, RightAfter(child.stop).i, RightAfter(child.stop).i0, tokens,
                              Append(items, NodeOf(child)))
    ELSE IF At(s, i) = CLOSE
    THEN [err |-> "none", tokens |-> Flush(s, i0, i, tokens), items |-> items, stop |-> i + 1]
    ELSE IF At(s, i) \in {SP, NL}
    THEN BracketScan(s, i + 1, i + 1, Flush(s, i0, i, tokens), items)
    ELSE IF At(s, i) \in {QUOTE, LPAR}
    THEN LET j == SkipTo(s, i, IF At(s, i) = QUOTE THEN QUOTE ELSE RPAR)
         IN  IF j < 0 THEN Failed("IndexError") ELSE BracketScan(s, j + 1, i0, tokens, items)
    ELSE BracketScan(s, FindFrom(s, i + 1, Specials), i0, tokens, items)

\* the tree of the bracket structure of the stream from start: [err, tokens, items, stop]
BracketTag(s, start) ==
    IF start >= Len(s) THEN Failed("IndexError")
    ELSE IF At(s, start) # OPEN THEN Failed("AssertionError")
    ELSE BracketScan(s, start + 1, start + 1, <<>>, <<>>)

\* C11: the constructor skips no character after a child: on every stream that is
\* well nested it succeeds and returns the tree of the stream's bracket structure, also
\* when a close delimiter or a token character directly follows a child.
C11_NoCharacterSkipped ==
    pc # "new" /\ nset = 0 /\ BracketTag(stream, 0).err = "none" =>
        tree.err = "none" /\ tree.node = NodeOf(BracketTag(stream, 0))

-----------------------------------------------------------------------------
(* Claims about the editor, checked under Spec *)

\* the step is a call of op
Called(op) == nops' = nops + 1 /\ last'.op = op

\* the positions of the root's text children, those that have a text
TopTexts(sch, hp) ==
    {k \in DOMAIN sch.items :
        /\ tag(hp[sch.items[k]]).val = S_text
        /\ TextLine(hp[sch.items[k]]).err = "none"}

\* the text of the root's child at position k
TextAt(sch, hp, k) == TextLine(hp[sch.items[k]]).val

\* items without the element at position k
Without(items, k) == SubSeq(items, 1, k - 1) \o SubSeq(items, k + 1, Len(items))

\* C1: after set_component_value(d, v) on a designator d of the document,
\* get_component_value(d) returns v for a string v and format_eng(v) for a number v.
C1_SetThenGet ==
    last.op = "set_component_value" /\ last.err = "none" =>
        /\ get_component_value(symbols, last.device).err = "none"
        /\ get_component_value(symbols, last.device).val =
             (IF last.value.kind = "str" THEN last.value.v ELSE format_eng(last.value.v))

IsUniqueText(line) == ToUpper(FirstWord(line)) \in UNIQUE_SIMULATION_DOT_INSTRUCTIONS

\* the positions of the root's text children that hold a unique directive
UniqueTexts(sch, hp) == {k \in TopTexts(sch, hp) : IsUniqueText(TextAt(sch, hp, k))}

\* the positions of the root's text children whose text contains sub
TextsHolding(sch, hp, sub) == {k \in TopTexts(sch, hp) : Contains(TextAt(sch, hp, k), sub)}

\* C3: add_instruction with a unique simulation directive does not fail and leaves
\* exactly one top-level text node with a unique directive, whose text is the
\* instruction; on a document without such a node it appends one text node to the root.
C3_UniqueReplace ==
    [][Called("add_instruction") /\ IsUniqueText(last'.instruction) =>
          /\ last'.err = "none"
          /\ \E k \in DOMAIN schematic'.items :
                /\ UniqueTexts(schematic', heap') = {k}
                /\ TextAt(schematic', heap', k) = last'.instruction
          /\ UniqueTexts(schematic, heap) = {} =>
                /\ Len(schematic'.items) = Len(schematic.items) + 1
                /\ SubSeq(schematic'.items, 1, Len(schematic.items)) = schematic.items
                /\ tag(heap'[schematic'.items[Len(schematic'.items)]]).val = S_text]_vars

\* C4: remove_instruction(text) removes the first top-level text child whose string
\* contains text and leaves the other children in place and in order; when no text
\* child contains it the call fails with the not-found RuntimeError and changes nothing.
C4_RemoveFirstMatch ==
    [][Called("remove_instruction") =>
          LET hits == TextsHolding(schematic, heap, last'.instruction)
          IN  IF hits = {}
              THEN last'.err = "RuntimeError" /\ schematic' = schematic /\ heap' = heap
              ELSE /\ last'.err = "none"
                   /\ heap' = heap
                   /\ schematic'.tokens = schematic.tokens
                   /\ schematic'.items = Without(schematic.items, Min(hits))]_vars

\* C5: set_parameter(name, value) with a name the document does not define succeeds
\* on every loaded document, adds exactly one child to the root, the new last child
\* being a text node with the text ".param name=value", and get_parameter(name) then
\* returns that value.
C5_ParameterSynthesis ==
    [][/\ Called("set_parameter")
       /\ get_parameter(schematic, heap, last'.param).err = "ParameterNotFoundError"
       => /\ last'.err = "none"
          /\ Len(schematic'.items) = Len(schematic.items) + 1
          /\ SubSeq(schematic'.items, 1, Len(schematic.items)) = schematic.items
          /\ tag(heap'[schematic'.items[Len(schematic'.items)]]).val = S_text
          /\ TextLine(heap'[schematic'.items[Len(schematic'.items)]]).val =
                S_param \o <<SP>> \o last'.param \o <<"=">> \o Str(last'.value)
          /\ get_parameter(schematic', heap', last'.param).err = "none"
          /\ get_parameter(schematic', heap', last'.param).val = Str(last'.value)]_vars

\* a number, or a string of letters, digits and . + - only
PlainValue(value) ==
    \/ value.kind = "int"
    \/ Range(value.v) \subseteq Range(Digits) \cup Range(Lower) \cup Range(Upper) \cup {".", "+", "-"}

\* set_parameter on a name the document defines: the call succeeds, the root, its
\* children and their order stay, and the one node that changes is the first matching
\* text child, in its string token only, where name=value replaces the matched span
EditedInPlace ==
    LET m == get_text_matching(schematic, heap, S_PARAM, last'.param)
        span == ParamSearch(m.line, last'.param)
    IN  /\ last'.err = "none"
        /\ schematic' = schematic
        /\ DOMAIN heap' = DOMAIN heap
        /\ \A id \in DOMAIN heap : id # m.id => heap'[id] = heap[id]
        /\ heap'[m.id].items = heap[m.id].items
        /\ \A k \in DOMAIN heap[m.id].tokens :
              k # QSCH_TEXT_STR_ATTR + 1 => heap'[m.id].tokens[k] = heap[m.id].tokens[k]
        /\ TextLine(heap'[m.id]).val =
              SubSeq(m.line, 1, span.start) \o last'.param \o <<"=">> \o ValueStr(last'.value)
              \o SubSeq(m.line, span.stop + 1, Len(m.line))

\* get_parameter(name) after the call returns the formatted value
ReadsBack ==
    /\ get_parameter(schematic', heap', last'.param).err = "none"
    /\ get_parameter(schematic', heap', last'.param).val = ValueStr(last'.value)

C7_AllOrNothing ==
    [][Called("reset_netlist") /\ last'.err # "none" =>
          schematic' = schematic /\ heap' = heap /\ symbols' = symbols]_vars

\* the positions of the root's component children
TopComponents(sch, hp) == {k \in DOMAIN sch.items : tag(hp[sch.items[k]]).val = S_component}

\* the designator of the root's child at position k
DesignatorAt(sch, hp, k) == ComponentEntry(hp[sch.items[k]], sch.items[k]).key

\* C9: after a load that succeeded, every designator of a component of the document has
\* exactly one index entry, which holds the type, description, model and tag of the last
\* component with that designator, and get_components lists the designator once.
C9_LaterComponentWins ==
    last.op \in {"__init__", "reset_netlist"} /\ last.err = "none" =>
        \A k \in TopComponents(schematic, heap) :
            LET d == DesignatorAt(schematic, heap, k)
                later == Max({j \in TopComponents(schematic, heap) :
                                DesignatorAt(schematic, heap, j) = d})
                c == heap[schematic.items[later]]
            IN  /\ Cardinality({i \in DOMAIN symbols : symbols[i].key = d}) = 1
                /\ Cardinality({i \in DOMAIN get_components(symbols) :
                                  get_components(symbols)[i] = d}) = 1
                /\ get_component_info(symbols, d).err = "none"
                /\ get_component_info(symbols, d).info.tag = schematic.items[later]
                /\ get_component_info(symbols, d).info =
                      ComponentEntry(c, schematic.items[later]).info

\* a document loaded in which two components carry the same designator
C9_Witness ==
    /\ last.op \in {"__init__", "reset_netlist"}
    /\ last.err = "none"
    /\ \E j, k \in TopComponents(schematic, heap) :
          j < k /\ DesignatorAt(schematic, heap, j) = DesignatorAt(schematic, heap, k)

\* the designators get_components lists are those of the root's component children, and
\* the tag of each entry is one of these children
IndexMatchesTree(sch, hp, syms) ==
    /\ Range(get_components(syms)) =
          {DesignatorAt(sch, hp, k) : k \in TopComponents(sch, hp)}
    /\ \A i \in DOMAIN syms :
          \E k \in TopComponents(sch, hp) : sch.items[k] = syms[i].info.tag

\* C12: set_component_value, set_parameter, add_instruction, remove_instruction and
\* remove_component keep the index and the tree consistent, and after
\* remove_component(d) the designator d is not listed and get_component_info(d) fails
\* with the component-not-found error.
C12_IndexTreeConsistent ==
    [][/\ nops' = nops + 1
       /\ last'.op \in {"set_component_value", "set_parameter", "add_instruction",
                         "remove_instruction", "remove_component"}
       /\ IndexMatchesTree(schematic, heap, symbols)
       => /\ IndexMatchesTree(schematic', heap', symbols')
          /\ last'.op = "remove_component" /\ last'.err = "none" =>
                /\ last'.designator \notin Range(get_components(symbols'))
                /\ get_component_info(symbols', last'.designator).err =
                      "ComponentNotFoundError"]_vars

====
